---- MODULE Spec2Model ----
(***************************************************************************)
(* Task-pull scheduler of the TESS photometry pipeline (mpi_scheduler.py): *)
(* one master (rank 0) handing tasks of the TODO list to the workers       *)
(* (ranks 1..size-1) over tagged point-to-point messages.                  *)
(*                                                                         *)
(* The TaskManager (photometry/taskmanager.py) and tessphot are imported   *)
(* by the scheduler but are not among the sources; they are modelled from  *)
(* the design document (sections 4.1, 4.2, 4.4, 6).                        *)
(***************************************************************************)
EXTENDS Integers, Sequences, FiniteSets, TLC

\* ------------------------------------------------------------------ bounds
MaxTasks == 2
MaxWorkers == 2
MaxStray == 1
MaxEnv == 4

\* the largest number of run_tessphot invocations on one Task Store
MaxCallers == 2

\* the largest number of targets in the catalogue of make_todo
MaxRows == 3

\* the largest magnitude (tmag) of a target, magnitudes being 1..MaxTmag
MaxTmag == 2

\* ------------------------------------------------- message tags (line 40)
\* tags = enum.IntEnum('tags', ('READY', 'DONE', 'EXIT', 'START'))
READY == 1
DONE == 2
EXIT == 3
START == 4
\* a tag outside the four known ones
BOGUS == 5

VARIABLES
    status,          \* Task Store: priority -> stored status
    stored,          \* Task Store: priority -> persisted result payload
    num_workers,     \* master: size - 1
    closed_workers,  \* master: number of workers which have exited
    mpc,             \* master: "loop", "drained" or "aborted"
    toMaster,        \* per worker: messages in flight worker -> master
    toWorker,        \* per worker: messages in flight master -> worker
    pc,              \* per worker: "ready", "recv", "tessphot" or "exited"
    tag,             \* per worker: tag of the last message received
    task,            \* per worker: the name `task`
    result,          \* per worker: the name `result`
    pho,             \* per worker: the name `pho`
    k,               \* per worker: number of tasks worked
    nfatal,          \* per worker: "Fatal error in call to tessphot" log entries
    claimLog,        \* priorities returned by tm.get_task, in call order
    startLog,        \* priorities passed to tm.start_task, in call order
    startsSent,      \* priorities carried by the START messages, in send order
    nready,          \* per worker: READY messages the master received from it
    nstart,          \* per worker: START messages the master sent to it
    lastStart,       \* per worker: priority of the last START sent to it,
                     \* 0 when a DONE of the worker was handled since
    stray,           \* messages from outside the protocol injected so far
    tm_open,         \* master: the TaskManager of the with block is open
    rmode,           \* run_tessphot, per invocation: "starid", "random" or "all"
    rpc,             \* run_tessphot, per invocation: position in the program
    rtask,           \* run_tessphot, per invocation: the name `task`
    cat,             \* make_todo: the catalogue of targets, a list of rows
    todolist,        \* make_todo: the rows of the table todolist, as inserted
    pri,             \* make_todo: rows of cat already passed by the loop
    priority_idx,    \* make_todo: the unique index on priority exists
    tdpc             \* make_todo: position in the function

vars == <<status, stored, num_workers, closed_workers, mpc, toMaster,
          toWorker, pc, tag, task, result, pho, k, nfatal, claimLog,
          startLog, startsSent, nready, nstart, lastStart, stray, tm_open,
          rmode, rpc, rtask, cat, todolist, pri, priority_idx, tdpc>>

masterVars == <<status, stored, closed_workers, mpc, claimLog, startLog,
                startsSent, nready, nstart, lastStart, tm_open>>

runVars == <<rmode, rpc, rtask>>

todoVars == <<cat, todolist, pri, priority_idx, tdpc>>

workerVars == <<pc, tag, task, result, pho, k, nfatal>>

Workers == 1..num_workers

Tasks == DOMAIN status

\* ---------------------------------------------------------- python values
\* None, and also the value of a name which is not bound (after `del`)
None == [f \in {} |-> 0]

Unbound == "unbound"

\* `if task:` (line 72): None and the empty mapping are both false
Truthy(d) == DOMAIN d # {}

\* dict.copy() (line 121)
DictCopy(d) == [f \in DOMAIN d |-> d[f]]

\* del d[key] (line 122)
DictDel(d, key) == [f \in DOMAIN d \ {key} |-> d[f]]

\* d.update(e) (line 132)
DictUpdate(d, e) ==
    [f \in DOMAIN d \cup DOMAIN e |-> IF f \in DOMAIN e THEN e[f] ELSE d[f]]

Msg(t, d) == [tag |-> t, data |-> d]

\* ------------------------------------------------- Task Store (design 4.1)
\* identifying field of the task with priority p
StarId(p) == 100 + p

TaskRow(p) == [priority |-> p, starid |-> StarId(p)]

Pending(st) == {p \in DOMAIN st : st[p] = "PENDING"}

MinOf(S) == CHOOSE x \in S : \A y \in S : x <= y

MaxOf(S) == CHOOSE x \in S : \A y \in S : x >= y

\* faulty variant of ClaimPick: the highest priority is selected
ClaimPick_Highest(st) == MaxOf(Pending(st))

\* claim_next: the task which is selected, the single lowest-priority PENDING one
ClaimPick(st) == MinOf(Pending(st))

\* faulty variant of ClaimMark: the selected task stays PENDING
ClaimMark_Forgotten(st, p) == st

\* claim_next: the selected task is transitioned to RUNNING
ClaimMark(st, p) == [st EXCEPT ![p] = "RUNNING"]

\* tm.get_task() (claim_next): the returned value, none when the queue is exhausted
get_task(st) == IF Pending(st) = {} THEN None ELSE TaskRow(ClaimPick(st))

\* tm.get_task() (claim_next): the store after the call
get_task_store(st) ==
    IF Pending(st) = {} THEN st ELSE ClaimMark(st, ClaimPick(st))

\* tm.get_random_task() (get_random_pending): the values the call may return
get_random_task(st) ==
    IF Pending(st) = {} THEN {None} ELSE {TaskRow(p) : p \in Pending(st)}

\* faulty variant of get_random_store: the picked task is claimed
get_random_store_Claims(st, t) ==
    IF t = None THEN st ELSE ClaimMark(st, t.priority)

\* tm.get_random_task() (get_random_pending): read-only, the store after the call
get_random_store(st, t) == st

\* tm.start_task(priority): notification hook, logged; no change of the store
start_task(log, priority) == Append(log, priority)

\* TaskManager.__exit__: the handle of the Task Store is released
tm_exit(open) == FALSE

\* faulty variant of StoredStatus: a failed task is queued again
StoredStatus_Retry(s) == IF s \in {"OK", "WARNING"} THEN "DONE" ELSE "PENDING"

\* design 4.4: DONE for OK/WARNING, ERROR store-status for ERROR/FATAL
StoredStatus(s) == IF s \in {"OK", "WARNING"} THEN "DONE" ELSE "ERROR"

\* faulty variant of Completable: any known task is completed again
Completable_Any(st, res) ==
    /\ "priority" \in DOMAIN res
    /\ "status" \in DOMAIN res
    /\ res.priority \in DOMAIN st

\* complete(priority, result): only a RUNNING task is completed
Completable(st, res) ==
    /\ "priority" \in DOMAIN res
    /\ "status" \in DOMAIN res
    /\ res.priority \in DOMAIN st
    /\ st[res.priority] = "RUNNING"

\* tm.save_result(result): the statuses after the call
save_result(st, res) ==
    IF Completable(st, res)
    THEN [st EXCEPT ![res.priority] = StoredStatus(res.status)]
    ELSE st

\* tm.save_result(result): the persisted payloads after the call
save_result_payload(st, sd, res) ==
    IF Completable(st, res) THEN [sd EXCEPT ![res.priority] = res] ELSE sd

\* --------------------------------------------- tessphot (design 4.4 and 6)
\* what one call of tessphot does: returns a photometry object with this
\* status, or raises
Outcomes == {"OK", "WARNING", "ERROR", "raise"}

\* ------------------------------------------------------------------- Init
\* make_todo is not running
TodoOff ==
    /\ cat = <<>>
    /\ todolist = <<>>
    /\ pri = 0
    /\ priority_idx = FALSE
    /\ tdpc = "off"

Init ==
    /\ num_workers \in 1..MaxWorkers
    /\ \E m \in 0..MaxTasks :
          /\ status = [p \in 1..m |-> "PENDING"]
          /\ stored = [p \in 1..m |-> None]
    /\ closed_workers = 0
    /\ mpc = "loop"
    /\ toMaster = [w \in Workers |-> <<>>]
    /\ toWorker = [w \in Workers |-> <<>>]
    /\ pc = [w \in Workers |-> "ready"]
    /\ tag = [w \in Workers |-> 0]
    /\ task = [w \in Workers |-> None]
    /\ result = [w \in Workers |-> None]
    /\ pho = [w \in Workers |-> Unbound]
    /\ k = [w \in Workers |-> 0]
    /\ nfatal = [w \in Workers |-> 0]
    /\ claimLog = <<>>
    /\ startLog = <<>>
    /\ startsSent = <<>>
    /\ nready = [w \in Workers |-> 0]
    /\ nstart = [w \in Workers |-> 0]
    /\ lastStart = [w \in Workers |-> 0]
    /\ stray = 0
    /\ tm_open = TRUE
    /\ rmode = <<>>
    /\ rpc = <<>>
    /\ rtask = <<>>
    /\ TodoOff

\* ----------------------------------------------------------------- master
\* faulty variant of ReadyReply: the test of line 72 is inverted
ReadyReply_Inverted(t) ==
    IF Truthy(t) THEN Msg(EXIT, None) ELSE Msg(START, t)

\* lines 72-78: the answer to a READY, START with the task or EXIT
ReadyReply(t) == IF Truthy(t) THEN Msg(START, t) ELSE Msg(EXIT, None)

\* faulty variant of ReplyDest: the answer always goes to rank 1
ReplyDest_First(source) == 1

\* lines 75 and 78: dest=source
ReplyDest(source) == source

\* faulty variant of ClosedAfter: a DONE is counted as a closed worker too
ClosedAfter_Done(t, c) == IF t \in {EXIT, DONE} THEN c + 1 ELSE c

\* lines 85-88: closed_workers += 1, in the EXIT branch only
ClosedAfter(t, c) == IF t = EXIT THEN c + 1 ELSE c

\* faulty variant of DoneReply: the next PENDING task is pushed to the worker
DoneReply_Push(st) ==
    IF Pending(st) = {} THEN <<>> ELSE <<Msg(START, TaskRow(ClaimPick(st)))>>

\* lines 80-83: what the DONE branch sends to the worker (nothing)
DoneReply(st) == <<>>

\* faulty variant of ExitOnRaise: the TaskManager is closed at the normal end
\* of the block only
ExitOnRaise_Leak(open) == open

\* line 52: `with`: an exception which leaves the block closes the TaskManager
ExitOnRaise(open) == tm_exit(open)

\* faulty variant of AfterUnknownTag: the message is skipped and the loop goes on
AfterUnknownTag_Skipped == "loop"

\* line 93: raise Exception("Master received an unknown tag: ..."), which
\* nothing catches: the master leaves the loop and the program
AfterUnknownTag == "aborted"

\* lines 65-93: the master branches on the tag of the message m it received
\* from worker `source`
MasterHandle(source, m) ==
    /\ LET data == m.data
           mtag == m.tag
       IN
       /\ closed_workers' = ClosedAfter(mtag, closed_workers)
       /\ tm_open' = IF mtag \in {READY, DONE, EXIT} THEN tm_open
                                                    ELSE ExitOnRaise(tm_open)
       /\ IF mtag = READY
          THEN LET t == get_task(status)
                   reply == ReadyReply(t)
                   dest == ReplyDest(source)
               IN
               /\ status' = get_task_store(status)
               /\ claimLog' = IF Truthy(t) THEN Append(claimLog, t.priority)
                                           ELSE claimLog
               /\ startLog' = IF Truthy(t) THEN start_task(startLog, t.priority)
                                           ELSE startLog
               /\ toWorker' = [toWorker EXCEPT ![dest] = Append(@, reply)]
               /\ startsSent' = IF reply.tag = START
                                THEN Append(startsSent,
                                            IF Truthy(reply.data)
                                            THEN reply.data.priority ELSE 0)
                                ELSE startsSent
               /\ nready' = [nready EXCEPT ![source] = @ + 1]
               /\ nstart' = IF reply.tag = START
                            THEN [nstart EXCEPT ![dest] = @ + 1]
                            ELSE nstart
               /\ lastStart' = IF reply.tag = START
                               THEN [lastStart EXCEPT
                                       ![dest] = IF Truthy(reply.data)
                                                 THEN reply.data.priority
                                                 ELSE 0]
                               ELSE lastStart
               /\ mpc' = mpc
               /\ stored' = stored
          ELSE IF mtag = DONE
          THEN LET push == DoneReply(status) IN
               /\ status' = save_result(status, data)
               /\ stored' = save_result_payload(status, stored, data)
               /\ toWorker' = [toWorker EXCEPT ![source] = @ \o push]
               /\ startsSent' = startsSent \o
                                  [i \in 1..Len(push) |-> push[i].data.priority]
               /\ nstart' = [nstart EXCEPT ![source] = @ + Len(push)]
               /\ lastStart' = IF push = <<>>
                               THEN [lastStart EXCEPT ![source] = 0]
                               ELSE [lastStart EXCEPT
                                       ![source] = push[Len(push)].data.priority]
               /\ mpc' = mpc
               /\ UNCHANGED <<claimLog, startLog, nready>>
          ELSE IF mtag = EXIT
          THEN /\ mpc' = mpc
               /\ UNCHANGED <<status, stored, toWorker, claimLog, startLog,
                              startsSent, nready, nstart, lastStart>>
          ELSE \* line 93: raise Exception("Master recieved an unknown tag")
               /\ mpc' = AfterUnknownTag
               /\ UNCHANGED <<status, stored, toWorker, claimLog, startLog,
                              startsSent, nready, nstart, lastStart>>
    /\ UNCHANGED <<num_workers, runVars, todoVars, workerVars>>

RemoveAt(q, i) == SubSeq(q, 1, i - 1) \o SubSeq(q, i + 1, Len(q))

\* faulty variant of RecvIndex: a later message of a source overtakes
RecvIndex_Newest(q) == Len(q)

\* line 64: comm.recv(source=MPI.ANY_SOURCE, ...): of the messages of one
\* source the one sent first is received (MPI messages do not overtake)
RecvIndex(q) == 1

\* lines 62-64: one pass of the master loop, receiving from worker w
MasterRecv(w) ==
    /\ mpc = "loop"
    /\ closed_workers < num_workers
    /\ w \in Workers
    /\ toMaster[w] # <<>>
    /\ toMaster' = [toMaster EXCEPT ![w] = RemoveAt(@, RecvIndex(@))]
    /\ MasterHandle(w, toMaster[w][RecvIndex(toMaster[w])])
    /\ stray' = stray

\* lines 62 and 95: the loop condition fails, "Master finishing"
MasterFinish ==
    /\ mpc = "loop"
    /\ closed_workers >= num_workers
    /\ mpc' = "drained"
    /\ tm_open' = tm_exit(tm_open)
    /\ UNCHANGED <<status, stored, num_workers, runVars, todoVars, closed_workers, toMaster,
                   toWorker, workerVars, claimLog, startLog, startsSent,
                   nready, nstart, lastStart, stray>>

\* ----------------------------------------------------------------- worker
\* faulty variant of Finally: the worker ends without the EXIT
Finally_Skipped(q) == q

\* faulty variant of Finally: the EXIT is sent by the handler and by finally
Finally_Twice(q) == q \o <<Msg(EXIT, None), Msg(EXIT, None)>>

\* lines 158-159: finally: comm.send(None, dest=0, tag=tags.EXIT)
Finally(q) == Append(q, Msg(EXIT, None))

\* lines 125-128: pho is bound only when tessphot returns; a raise is logged
\* and leaves the name as it was
PhoAfter(old, outcome) == IF outcome = "raise" THEN old ELSE outcome

\* line 128: logger.exception("Fatal error in call to tessphot")
FatalLogged(n, outcome) == IF outcome = "raise" THEN n + 1 ELSE n

\* lines 132-136: result.update({'status': pho.status, 'time': ..., 'details': ...})
BuildResult(res, p) ==
    DictUpdate(res, [status |-> p, time |-> 1, details |-> 0])

\* faulty variant of ResultOf: the copy is taken after the priority is deleted
ResultOf_AfterDel(t) == DictCopy(DictDel(t, "priority"))

\* line 121: result = task.copy(), taken before line 122 deletes the priority
ResultOf(t) == DictCopy(t)

\* line 115: comm.send(None, dest=0, tag=tags.READY)
WorkerReady(w) ==
    /\ w \in Workers
    /\ pc[w] = "ready"
    /\ toMaster' = [toMaster EXCEPT ![w] = Append(@, Msg(READY, None))]
    /\ pc' = [pc EXCEPT ![w] = "recv"]
    /\ UNCHANGED <<masterVars, num_workers, runVars, todoVars, toWorker, tag, task, result, pho,
                   k, nfatal, stray>>

\* lines 117-122 and 146-159: branch on the tag of the received message m
WorkerHandle(w, m) ==
    /\ tag' = [tag EXCEPT ![w] = m.tag]
    /\ IF m.tag = START
       THEN \* result = task.copy(); del task['priority']
            IF "priority" \in DOMAIN m.data
            THEN /\ result' = [result EXCEPT ![w] = ResultOf(m.data)]
                 /\ task' = [task EXCEPT ![w] = DictDel(m.data, "priority")]
                 /\ pc' = [pc EXCEPT ![w] = "tessphot"]
                 /\ toMaster' = toMaster
            ELSE \* AttributeError or KeyError: except, then finally
                 /\ result' = result
                 /\ task' = [task EXCEPT ![w] = m.data]
                 /\ pc' = [pc EXCEPT ![w] = "exited"]
                 /\ toMaster' = [toMaster EXCEPT ![w] = Finally(@)]
       ELSE \* tags.EXIT: break; any other tag: raise; both end in finally
            /\ task' = [task EXCEPT ![w] = m.data]
            /\ result' = result
            /\ pc' = [pc EXCEPT ![w] = "exited"]
            /\ toMaster' = [toMaster EXCEPT ![w] = Finally(@)]
    /\ UNCHANGED <<masterVars, num_workers, runVars, todoVars, pho, k, nfatal>>

\* line 116: task = comm.recv(source=0, tag=MPI.ANY_TAG, status=status)
WorkerRecv(w) ==
    /\ w \in Workers
    /\ pc[w] = "recv"
    /\ toWorker[w] # <<>>
    /\ toWorker' = [toWorker EXCEPT ![w] = Tail(@)]
    /\ WorkerHandle(w, Head(toWorker[w]))
    /\ stray' = stray

\* lines 124-144, 115 and 155-159: the call of tessphot ends; the result is
\* built from pho and sent as DONE, and the next pass of the loop sends READY
WorkerTessphot(w) ==
    /\ w \in Workers
    /\ pc[w] = "tessphot"
    /\ \E outcome \in Outcomes :
          LET p == PhoAfter(pho[w], outcome) IN
          /\ nfatal' = [nfatal EXCEPT ![w] = FatalLogged(@, outcome)]
          /\ IF p = Unbound
             THEN \* line 133: NameError on pho; except (line 155), then finally
                  /\ toMaster' = [toMaster EXCEPT ![w] = Finally(@)]
                  /\ pc' = [pc EXCEPT ![w] = "exited"]
                  /\ pho' = [pho EXCEPT ![w] = p]
                  /\ UNCHANGED <<task, result, k>>
             ELSE /\ toMaster' = [toMaster EXCEPT
                        ![w] = @ \o <<Msg(DONE, BuildResult(result[w], p)),
                                      Msg(READY, None)>>]
                  \* del pho, task, result; k += 1
                  /\ pho' = [pho EXCEPT ![w] = Unbound]
                  /\ task' = [task EXCEPT ![w] = None]
                  /\ result' = [result EXCEPT ![w] = None]
                  /\ k' = [k EXCEPT ![w] = @ + 1]
                  /\ pc' = [pc EXCEPT ![w] = "recv"]
    /\ UNCHANGED <<masterVars, num_workers, runVars, todoVars, toWorker, tag, stray>>

\* line 126: the call of tessphot never returns (no timeout surrounds it)
WorkerHang(w) ==
    /\ w \in Workers
    /\ pc[w] = "tessphot"
    /\ pc' = [pc EXCEPT ![w] = "hung"]
    /\ UNCHANGED <<masterVars, num_workers, runVars, todoVars, toMaster, toWorker, tag,
                   task, result, pho, k, nfatal, stray>>

\* ------------------------------------------------------------ environment
\* line 116: the worker, blocked in recv before the answer of the master has
\* arrived, receives a message with a tag outside the protocol
Stray(w) ==
    /\ w \in Workers
    /\ stray < MaxStray
    /\ pc[w] = "recv"
    /\ toWorker[w] = <<>>
    /\ toWorker' = toWorker
    /\ WorkerHandle(w, Msg(BOGUS, None))
    /\ stray' = stray + 1

\* the messages an arbitrary sender can put before the master: the three
\* tags a worker uses, with any report as the payload of DONE (one naming a
\* priority the store does not know included), and a tag outside the protocol
EnvMsgs ==
    {Msg(READY, None), Msg(EXIT, None), Msg(START, None), Msg(BOGUS, None)}
    \cup {Msg(DONE, BuildResult(TaskRow(p), s)) :
             p \in 1..(MaxTasks + 1), s \in {"OK", "ERROR"}}

\* lines 62-66: the master, blocked in recv, receives message m from rank w,
\* whatever the workers would have sent
EnvSendWith(w, m) ==
    /\ w \in Workers
    /\ stray < MaxEnv
    /\ mpc = "loop"
    /\ closed_workers < num_workers
    /\ toMaster' = toMaster
    /\ MasterHandle(w, m)
    /\ stray' = stray + 1

EnvSend(w) == \E m \in EnvMsgs : EnvSendWith(w, m)

\* lines 67, 70 and 83: the calls of the TaskManager in the loop
TmCalls == {"get_task", "start_task", "save_result"}

\* lines 62-83 with line 52: the master handles message m and the call
\* `where` of the TaskManager raises; nothing in the master catches it, so the
\* loop and the with block are left
MasterRaise(m, where) ==
    /\ mpc = "loop"
    /\ closed_workers < num_workers
    /\ stray < MaxEnv
    /\ \/ /\ m.tag = READY
          /\ where = "get_task"
          /\ UNCHANGED <<status, claimLog>>
       \/ /\ m.tag = READY
          /\ where = "start_task"
          /\ Truthy(get_task(status))
          /\ status' = get_task_store(status)
          /\ claimLog' = Append(claimLog, get_task(status).priority)
       \/ /\ m.tag = DONE
          /\ where = "save_result"
          /\ UNCHANGED <<status, claimLog>>
    /\ mpc' = "failed"
    /\ tm_open' = ExitOnRaise(tm_open)
    /\ stray' = stray + 1
    /\ UNCHANGED <<stored, num_workers, runVars, todoVars, closed_workers, toMaster,
                   toWorker, workerVars, startLog, startsSent, nready, nstart,
                   lastStart>>

EnvRaise == \E m \in EnvMsgs : \E where \in TmCalls : MasterRaise(m, where)

\* --------------------------------------------------------- specifications
MasterStep == MasterFinish \/ \E w \in 1..MaxWorkers : MasterRecv(w)

WorkerStep(w) == WorkerReady(w) \/ WorkerRecv(w) \/ WorkerTessphot(w)

Next == MasterStep \/ \E w \in 1..MaxWorkers : WorkerStep(w)

Spec == Init /\ [][Next]_vars

\* the processes keep running: as long as the master or a worker can take
\* a step, one of them does (a call of tessphot included, which finishes)
Fairness == WF_vars(Next)

LiveSpec == Spec /\ Fairness

NextFault == Next \/ \E w \in 1..MaxWorkers : Stray(w)

FaultSpec == Init /\ [][NextFault]_vars /\ Fairness

NextHang == Next \/ \E w \in 1..MaxWorkers : WorkerHang(w)

HangSpec == Init /\ [][NextHang]_vars

\* the master alone, facing an arbitrary sequence of messages
\* ---- run_tessphot.py: one invocation per caller, all on one Task Store ----

Callers == DOMAIN rpc

StoreStatuses == {"PENDING", "RUNNING", "DONE", "ERROR"}

\* the stores a scheduler run can leave behind: claims go upwards, so every
\* task below a task which is not PENDING is not PENDING either
LeftStores ==
    UNION {{st \in [1..m -> StoreStatuses] :
               \A p, q \in 1..m : (p < q /\ st[p] = "PENDING") => st[q] = "PENDING"} :
           m \in 0..MaxTasks}

RunInit ==
    /\ status \in LeftStores
    /\ stored = [p \in DOMAIN status |-> None]
    /\ \E n \in 1..MaxCallers :
          /\ rmode \in [1..n -> {"starid", "random", "all"}]
          /\ rpc = [c \in 1..n |-> "start"]
          /\ rtask = [c \in 1..n |-> Unbound]
    /\ num_workers = 0
    /\ closed_workers = 0
    /\ mpc = "off"
    /\ tm_open = FALSE
    /\ toMaster = <<>>
    /\ toWorker = <<>>
    /\ pc = <<>>
    /\ tag = <<>>
    /\ task = <<>>
    /\ result = <<>>
    /\ pho = <<>>
    /\ k = <<>>
    /\ nfatal = <<>>
    /\ claimLog = <<>>
    /\ startLog = <<>>
    /\ startsSent = <<>>
    /\ nready = <<>>
    /\ nstart = <<>>
    /\ lastStart = <<>>
    /\ stray = 0
    /\ TodoOff

\* lines 64 and 72: `del task['priority']`; on None it raises TypeError, which
\* leaves the program
RunAfterDel(t) == IF t = None THEN "failed" ELSE "tessphot"

RunDel(t) == IF t = None THEN None ELSE DictDel(t, "priority")

\* lines 58-59: a star is named on the command line
RunStarid(c) ==
    /\ c \in Callers
    /\ rpc[c] = "start"
    /\ rmode[c] = "starid"
    /\ \E p \in 1..MaxTasks :
          rtask' = [rtask EXCEPT ![c] = [starid |-> StarId(p), method |-> 0]]
    /\ rpc' = [rpc EXCEPT ![c] = "tessphot"]
    /\ UNCHANGED <<status, stored, rmode>>

\* lines 62-64: --random
RunRandom(c) ==
    /\ c \in Callers
    /\ rpc[c] = "start"
    /\ rmode[c] = "random"
    /\ \E t \in get_random_task(status) :
          /\ status' = get_random_store(status, t)
          /\ rtask' = [rtask EXCEPT ![c] = RunDel(t)]
          /\ rpc' = [rpc EXCEPT ![c] = RunAfterDel(t)]
    /\ UNCHANGED <<stored, rmode>>

\* lines 67-72: --all
RunAll(c) ==
    /\ c \in Callers
    /\ rpc[c] = "start"
    /\ rmode[c] = "all"
    /\ LET t == get_task(status)
       IN  /\ status' = get_task_store(status)
           /\ rtask' = [rtask EXCEPT ![c] = RunDel(t)]
           /\ rpc' = [rpc EXCEPT ![c] = RunAfterDel(t)]
    /\ UNCHANGED <<stored, rmode>>

\* lines 60, 65, 73 and 80-82: tessphot runs; its status is printed when it
\* returns, and an exception leaves the program
RunTessphot(c) ==
    /\ c \in Callers
    /\ rpc[c] = "tessphot"
    /\ \E outcome \in Outcomes :
          rpc' = [rpc EXCEPT ![c] = IF outcome = "raise" THEN "failed"
                                                        ELSE "printed"]
    /\ UNCHANGED <<status, stored, rmode, rtask>>

RunStep(c) ==
    /\ \/ RunStarid(c)
       \/ RunRandom(c)
       \/ RunAll(c)
       \/ RunTessphot(c)
    /\ UNCHANGED <<num_workers, closed_workers, mpc, tm_open, toMaster, toWorker,
                   workerVars, claimLog, startLog, startsSent, nready, nstart,
                   lastStart, stray, todoVars>>

NextRun == \E c \in 1..MaxCallers : RunStep(c)

RunSpec == RunInit /\ [][NextRun]_vars

\* ---- photometry/todolist.py: make_todo writes the table todolist ----

\* line 422: status INT DEFAULT NULL, and the INSERT names no status
Null == "NULL"

\* the catalogues which reach line 406: at least one target (line 373
\* returns on an empty catalogue), in any order, magnitudes not distinct
Catalogues ==
    UNION {{[i \in 1..n |-> [starid |-> i, tmag |-> f[i]]] :
               f \in [1..n -> 1..MaxTmag]} :
           n \in 1..MaxRows}

SortedByTmag(c) == \A i, j \in 1..Len(c) : i < j => c[i].tmag <= c[j].tmag

\* line 406: cat.sort('tmag'): the rows of c ordered by tmag; the order of
\* rows of equal tmag is not fixed by the sort
SortResults(c) ==
    {q \in [1..Len(c) -> {c[i] : i \in 1..Len(c)}] :
        /\ \A i, j \in 1..Len(c) : i # j => q[i] # q[j]
        /\ SortedByTmag(q)}

\* faulty variant of TodoPriority: the index of enumerate is written as it is
TodoPriority_FromZero(n) == n

\* line 432: pri+1, pri being the index of enumerate(cat), from 0
TodoPriority(n) == n + 1

\* lines 431-441: the values of one INSERT; status is not among the columns
InsertedRow(n, row) ==
    [priority |-> TodoPriority(n), starid |-> row.starid, tmag |-> row.tmag,
     status |-> Null]

TodoInit ==
    /\ cat \in Catalogues
    /\ todolist = <<>>
    /\ pri = 0
    /\ priority_idx = FALSE
    /\ tdpc = "sort"
    /\ status = <<>>
    /\ stored = <<>>
    /\ rmode = <<>>
    /\ rpc = <<>>
    /\ rtask = <<>>
    /\ num_workers = 0
    /\ closed_workers = 0
    /\ mpc = "off"
    /\ tm_open = FALSE
    /\ toMaster = <<>>
    /\ toWorker = <<>>
    /\ pc = <<>>
    /\ tag = <<>>
    /\ task = <<>>
    /\ result = <<>>
    /\ pho = <<>>
    /\ k = <<>>
    /\ nfatal = <<>>
    /\ claimLog = <<>>
    /\ startLog = <<>>
    /\ startsSent = <<>>
    /\ nready = <<>>
    /\ nstart = <<>>
    /\ lastStart = <<>>
    /\ stray = 0

\* lines 406-424: the catalogue is sorted and the empty table is created
TodoSort ==
    /\ tdpc = "sort"
    /\ cat' \in SortResults(cat)
    /\ tdpc' = "insert"
    /\ UNCHANGED <<todolist, pri, priority_idx>>

\* lines 426-441: one pass of `for pri, row in enumerate(cat)`
TodoInsert ==
    /\ tdpc = "insert"
    /\ pri < Len(cat)
    /\ todolist' = Append(todolist, InsertedRow(pri, cat[pri + 1]))
    /\ pri' = pri + 1
    /\ UNCHANGED <<cat, priority_idx, tdpc>>

\* lines 443-444: after the loop, commit and CREATE UNIQUE INDEX
\* priority_idx, which fails when two rows have the same priority
TodoIndex ==
    /\ tdpc = "insert"
    /\ pri = Len(cat)
    /\ IF \A i, j \in 1..Len(todolist) :
             i # j => todolist[i].priority # todolist[j].priority
       THEN priority_idx' = TRUE /\ tdpc' = "done"
       ELSE priority_idx' = FALSE /\ tdpc' = "failed"
    /\ UNCHANGED <<cat, todolist, pri>>

NextTodo ==
    /\ TodoSort \/ TodoInsert \/ TodoIndex
    /\ UNCHANGED <<masterVars, workerVars, runVars, num_workers, toMaster,
                   toWorker, stray>>

TodoSpec == TodoInit /\ [][NextTodo]_vars

NextOpen == MasterFinish \/ EnvRaise \/ \E w \in 1..MaxWorkers : EnvSend(w)

MasterStepOpen == NextOpen

OpenSpec == Init /\ [][NextOpen]_vars

\* ---------------------------------------------------------------- helpers
NoDup(seq) == \A i, j \in 1..Len(seq) : i # j => seq[i] # seq[j]

Increasing(seq) == \A i, j \in 1..Len(seq) : i < j => seq[i] < seq[j]

Range(seq) == {seq[i] : i \in 1..Len(seq)}

Last(seq) == seq[Len(seq)]

Settled == {"DONE", "ERROR"}

\* number of START messages in flight to worker w
StartsInFlight(w) ==
    Cardinality({i \in 1..Len(toWorker[w]) : toWorker[w][i].tag = START})

\* number of tasks assigned to worker w: in flight to it or being executed
Assigned(w) == StartsInFlight(w) + (IF pc[w] = "tessphot" THEN 1 ELSE 0)

\* the master handles, in this step, a message with tag t from worker w
Handles(w, t) ==
    /\ w \in Workers
    /\ toMaster[w] # <<>>
    /\ Head(toMaster[w]).tag = t
    /\ toMaster'[w] = Tail(toMaster[w])

Drained == mpc = "drained"

\* number of DONE messages the workers have sent (k += 1 follows each send)
KTotal ==
    LET f[i \in 0..num_workers] == IF i = 0 THEN 0 ELSE f[i - 1] + k[i]
    IN  f[num_workers]

SettledTasks == {p \in Tasks : status[p] \in Settled}

\* ------------------------------------------------------------------ C1
\* C1: no task is dispatched twice: tm.get_task returns each priority at most
\* once, and at most one START message carries a given priority.
C1_NoTaskDispatchedTwice == NoDup(claimLog) /\ NoDup(startsSent)

\* two workers have been handed tasks and a completion has been recorded
C1_Witness ==
    /\ Len(claimLog) >= 2
    /\ Len(startsSent) >= 2
    /\ \E w1, w2 \in Workers : w1 # w2 /\ nstart[w1] >= 1 /\ nstart[w2] >= 1
    /\ \E p \in Tasks : status[p] \in Settled

\* ------------------------------------------------------------------ C2
\* C2: a worker which leaves its loop, for whatever reason, sends EXIT to
\* the master as it does so; and when every process keeps running the master
\* counts all the workers as closed and finishes its loop.
C2_FinalExitThenDrained ==
    /\ [][\A w \in 1..MaxWorkers :
            (w \in Workers /\ pc[w] # "exited" /\ pc'[w] = "exited")
            => toMaster'[w] = Append(toMaster[w], Msg(EXIT, None))]_vars
    /\ <>(Drained /\ closed_workers = num_workers)

\* the master has finished after one worker left on an unknown tag and
\* another one on a failure while working a task
C2_Witness ==
    /\ Drained
    /\ \E w1, w2 \in Workers :
          /\ pc[w1] = "exited" /\ tag[w1] = BOGUS
          /\ pc[w2] = "exited" /\ tag[w2] = START

\* ------------------------------------------------------------------ C3
\* C3: when the master has finished, every task is DONE or ERROR, get_task
\* returns none and every worker has sent its final EXIT, also when calls
\* of tessphot fail.
C3_DrainedAllSettled ==
    Drained =>
        /\ \A p \in Tasks : status[p] \in Settled
        /\ Pending(status) = {}
        /\ closed_workers = num_workers
        /\ \A w \in Workers : pc[w] = "exited"

\* ------------------------------------------------------------------ C4
\* C4: each call of get_task returns the PENDING task of smallest priority
\* at that moment, and the priorities carried by the START messages are
\* strictly increasing in the order the master sends them.
C4_AscendingDispatch ==
    /\ [][Len(claimLog') = Len(claimLog) + 1
            => /\ status[Last(claimLog')] = "PENDING"
               /\ \A q \in Tasks :
                     status[q] = "PENDING" => Last(claimLog') <= q]_vars
    /\ [](Increasing(startsSent))

\* both workers were handed a task, the second one after the completion
\* of the first one was recorded
C4_Witness ==
    /\ Len(startsSent) >= 2
    /\ \E w1, w2 \in Workers : w1 # w2 /\ nstart[w1] >= 1 /\ nstart[w2] >= 1
    /\ \E p, q \in Tasks : status[p] \in Settled /\ status[q] = "RUNNING"

\* ------------------------------------------------------------------ C5
\* C5: a stored status changes only PENDING -> RUNNING, when the task is
\* claimed, and RUNNING -> DONE or ERROR, when its DONE message is handled;
\* the set of tasks never changes.
C5_StatusTransitions ==
    [][/\ DOMAIN status' = DOMAIN status
       /\ \A p \in DOMAIN status :
             status'[p] # status[p] =>
                \/ /\ status[p] = "PENDING"
                   /\ status'[p] = "RUNNING"
                   /\ claimLog' = Append(claimLog, p)
                \/ /\ status[p] = "RUNNING"
                   /\ status'[p] \in Settled
                   /\ \E w \in Workers :
                         /\ Handles(w, DONE)
                         /\ Head(toMaster[w]).data.priority = p]_vars

\* one task ended as DONE and another one as ERROR
C5_Witness ==
    \E p, q \in Tasks : status[p] = "DONE" /\ status[q] = "ERROR"

\* ------------------------------------------------------------------ C6
\* C6: when tessphot raises, the worker sends a DONE message for the task
\* with the FATAL outcome, and the master then stores ERROR for the task.
C6_RaiseReportedAsFatal ==
    /\ [][\A w \in 1..MaxWorkers :
            (w \in Workers /\ nfatal'[w] > nfatal[w])
            => /\ Len(toMaster'[w]) > Len(toMaster[w])
               /\ toMaster'[w][Len(toMaster[w]) + 1].tag = DONE
               /\ toMaster'[w][Len(toMaster[w]) + 1].data.priority
                     = result[w].priority
               /\ toMaster'[w][Len(toMaster[w]) + 1].data.status = "FATAL"]_vars
    /\ [][\A w \in 1..MaxWorkers :
            (Handles(w, DONE) /\ Head(toMaster[w]).data.status = "FATAL")
            => status'[Head(toMaster[w]).data.priority] = "ERROR"]_vars

\* ------------------------------------------------------------------ C7
\* C7: a worker has left its loop only after receiving EXIT or a message
\* with an unknown tag; a failing task does not end it.
C7_TaskFailureKeepsWorker ==
    \A w \in Workers : pc[w] = "exited" => tag[w] # START

\* ------------------------------------------------------------------ C8
\* C8: handling a READY of worker w sends exactly one message, to w: START
\* with the lowest PENDING task, after start_task got its priority, or EXIT
\* when no task is PENDING; closed_workers is unchanged.
C8_ReadyAnsweredOnce ==
    [][\A w \in 1..MaxWorkers :
          Handles(w, READY) =>
             /\ closed_workers' = closed_workers
             /\ \A v \in Workers \ {w} : toWorker'[v] = toWorker[v]
             /\ Len(toWorker'[w]) = Len(toWorker[w]) + 1
             /\ SubSeq(toWorker'[w], 1, Len(toWorker[w])) = toWorker[w]
             /\ IF \E p \in Tasks : status[p] = "PENDING"
                THEN /\ Last(toWorker'[w]).tag = START
                     /\ status[Last(toWorker'[w]).data.priority] = "PENDING"
                     /\ status'[Last(toWorker'[w]).data.priority] = "RUNNING"
                     /\ startLog' =
                           Append(startLog, Last(toWorker'[w]).data.priority)
                ELSE /\ Last(toWorker'[w]) = Msg(EXIT, None)
                     /\ startLog' = startLog]_vars

\* the second worker has been answered with START once and with EXIT later
C8_Witness ==
    /\ num_workers >= 2
    /\ nstart[2] >= 1
    /\ tag[2] = EXIT
    /\ nready[2] >= 2

\* ------------------------------------------------------------------ C9
\* C9: the master has sent a worker at most as many START messages as it
\* received READY messages from it, and a worker never has more than one
\* task assigned.
C9_NoUnsolicitedWork ==
    \A w \in Workers : nstart[w] <= nready[w] /\ Assigned(w) <= 1

\* a worker is working its second task
C9_Witness ==
    \E w \in Workers : nstart[w] >= 2 /\ pc[w] = "tessphot" /\ Assigned(w) = 1

\* ----------------------------------------------------------------- C10
\* C10: with an empty store no START is ever sent, each worker is answered
\* with EXIT on its first READY, and the master finishes.
C10_EmptyStoreDrains ==
    /\ [](Tasks = {} =>
            /\ startsSent = <<>>
            /\ \A w \in Workers :
                  /\ nstart[w] = 0
                  /\ nready[w] <= 1
                  /\ StartsInFlight(w) = 0
                  /\ nready[w] = 1 =>
                        \/ toWorker[w] = <<Msg(EXIT, None)>>
                        \/ toWorker[w] = <<>> /\ tag[w] = EXIT)
    /\ (Tasks = {}) ~> Drained

\* the master has finished on an empty store with two workers
C10_Witness ==
    /\ Tasks = {}
    /\ num_workers >= 2
    /\ Drained
    /\ \A w \in Workers : tag[w] = EXIT /\ nready[w] = 1

\* ----------------------------------------------------------------- C11
\* C11: when the master handles a DONE which names a task that is not
\* RUNNING (settled already, still PENDING, or unknown to the store), no
\* stored status and no stored result changes, and the master stays in its
\* loop, where it handles the messages which follow.
C11_StaleCompletionIgnored ==
    [][\A w \in 1..MaxWorkers : \A m \in EnvMsgs :
          (/\ m.tag = DONE
           /\ m.data.priority \notin Tasks \/ status[m.data.priority] # "RUNNING"
           /\ EnvSendWith(w, m))
          => /\ status' = status
             /\ stored' = stored
             /\ mpc = "loop" /\ mpc' = "loop"
             /\ closed_workers' = closed_workers
             /\ ENABLED MasterStepOpen]_vars

\* the master of one worker has finished after one READY, two DONE and one
\* EXIT: the second DONE found the task completed, and the stored result
\* is the one of the first
C11_Witness ==
    /\ Drained
    /\ num_workers = 1
    /\ stray = 4
    /\ nready[1] = 1
    /\ closed_workers = 1
    /\ 1 \in Tasks
    /\ status[1] = "DONE"
    /\ stored[1].status = "OK"

\* the task which invocation c obtained from the Task Store
Obtained(c) == rpc[c] # "start" /\ rmode[c] # "starid" /\ rtask[c] # None

Queries(c) == c \in Callers /\ rpc[c] = "start" /\ rpc'[c] # "start"

DonesInFlight == {m \in UNION {Range(toMaster[w]) : w \in Workers} : m.tag = DONE}

\* C13 as stated: the result of a DONE message holds status, time, details and
\* the identifying fields of the task, and no priority.
C13_ResultWithoutPriority ==
    \A m \in DonesInFlight :
        /\ {"status", "time", "details", "starid"} \subseteq DOMAIN m.data
        /\ "priority" \notin DOMAIN m.data

\* C13, amended: the result of a DONE message holds status, time, details and
\* every field of the task, the priority included (the copy of line 121 is
\* taken before the priority is deleted); the priority is absent only from the
\* job parameters which are passed to tessphot.
C13_ResultEchoesTask ==
    /\ \A m \in DonesInFlight :
          /\ DOMAIN m.data = {"status", "time", "details", "starid", "priority"}
          /\ m.data.priority \in Tasks
          /\ m.data.starid = StarId(m.data.priority)
    /\ \A w \in Workers :
          pc[w] = "tessphot"
          => /\ DOMAIN task[w] = {"starid"}
             /\ "priority" \in DOMAIN result[w]
             /\ result[w] = TaskRow(result[w].priority)
             /\ task[w].starid = result[w].starid

C13_Witness ==
    \E m \in DonesInFlight : m.data.priority = 1 /\ m.data.status = "OK"

\* C14: when the master receives a message whose tag is none of the four
\* known tags, it aborts: that step claims nothing and sends nothing, and
\* afterwards the master takes no step at all (no message handled, no task
\* claimed, nothing sent).
C14_UnknownTagAborts ==
    /\ [](mpc = "aborted" => ~ENABLED (MasterStepOpen \/ MasterStep))
    /\ [][\A w \in 1..MaxWorkers : \A m \in EnvMsgs :
            (m.tag \notin {READY, DONE, EXIT, START} /\ EnvSendWith(w, m))
            => /\ mpc' = "aborted"
               /\ UNCHANGED <<status, stored, toWorker, claimLog, startLog,
                              startsSent, closed_workers>>]_vars

C14_Witness ==
    /\ mpc = "aborted"
    /\ closed_workers < num_workers
    /\ Pending(status) # {}
    /\ \E p \in Tasks : status[p] = "RUNNING"

Terminal == mpc \in {"drained", "aborted", "failed"}

\* C15: the TaskManager is open while the master is in its loop, and it is
\* closed in every state in which the master has left the loop: after the
\* drain, after the abort on an unknown tag, and after get_task, start_task
\* or save_result has raised.
C15_HandleReleased ==
    /\ mpc = "loop" => tm_open
    /\ Terminal => ~tm_open

C15_Witness ==
    /\ mpc = "failed"
    /\ ~tm_open
    /\ \E p \in Tasks : status[p] = "RUNNING" /\ Last(claimLog) = p
    /\ Len(startLog) < Len(claimLog)

\* C16: get_random_task returns a PENDING task when there is one and none
\* otherwise, and it changes no status and no stored result: the returned
\* task is still PENDING after the call, so that a later get_task can return
\* that same task.
C16_RandomPickReadOnly ==
    [][\A c \in 1..MaxCallers :
          (Queries(c) /\ rmode[c] = "random")
          => /\ status' = status
             /\ stored' = stored
             /\ Pending(status) = {} => rtask'[c] = None
             /\ Pending(status) # {}
                => \E p \in Pending(status') :
                      /\ rtask'[c] = RunDel(TaskRow(p))
                      /\ p >= ClaimPick(status')]_vars

C16_Witness ==
    \E c, d \in Callers :
        /\ rmode[c] = "random"
        /\ rmode[d] = "all"
        /\ Obtained(c)
        /\ Obtained(d)
        /\ rtask[c] = rtask[d]
        /\ Cardinality(Pending(status)) = 1

Hung(w) == w \in Workers /\ pc[w] = "hung"

\* C17: a worker whose call of tessphot never returns stays in that call and
\* sends nothing more (no DONE, no READY, no EXIT); its task stays RUNNING;
\* the master never reaches the drained state, and once every other worker
\* has exited and every message is handled it is blocked in its receive.
C17_HungWorkerBlocksDrain ==
    /\ [](\A w \in 1..MaxWorkers :
             Hung(w)
             => /\ status[result[w].priority] = "RUNNING"
                /\ mpc = "loop"
                /\ closed_workers < num_workers
                /\ \A i \in 1..Len(toMaster[w]) : toMaster[w][i].tag # EXIT
                /\ (\A v \in Workers : toMaster[v] = <<>>) => ~ENABLED MasterStep)
    /\ [][\A w \in 1..MaxWorkers :
            Hung(w)
            => /\ pc'[w] = "hung"
               /\ Len(toMaster'[w]) <= Len(toMaster[w])
               /\ result'[w] = result[w]]_vars

C17_Witness ==
    /\ num_workers = 2
    /\ Hung(1)
    /\ pc[2] = "exited"
    /\ closed_workers = 1
    /\ toMaster[1] = <<>>
    /\ toMaster[2] = <<>>
    /\ k[2] >= 1
    /\ mpc = "loop"

Exited == {w \in Workers : pc[w] = "exited"}

ExitsInFlight(w) ==
    Cardinality({i \in 1..Len(toMaster[w]) : toMaster[w][i].tag = EXIT})

\* C18: a worker which receives a tag that is neither START nor EXIT runs no
\* task, leaves its loop and sends one EXIT, which is its last message: an
\* exited worker stays exited and sends nothing, and of every exited worker
\* exactly one EXIT is in flight or has been counted by the master.
C18_UnknownTagAtWorker ==
    /\ [](\A w \in 1..MaxWorkers :
             w \in Workers
             => /\ ExitsInFlight(w) = (IF toMaster[w] # <<>> /\ w \in Exited
                                         /\ Last(toMaster[w]).tag = EXIT
                                      THEN 1 ELSE 0)
                /\ w \notin Exited => ExitsInFlight(w) = 0)
    /\ [](mpc = "loop"
          => closed_workers + Cardinality({w \in Exited : ExitsInFlight(w) = 1})
             = Cardinality(Exited))
    /\ [][\A w \in 1..MaxWorkers :
            /\ Stray(w)
               => /\ pc'[w] = "exited"
                  /\ tag'[w] \notin {START, EXIT}
                  /\ toMaster'[w] = Append(toMaster[w], Msg(EXIT, None))
                  /\ k'[w] = k[w]
                  /\ nfatal'[w] = nfatal[w]
                  /\ pho'[w] = pho[w]
            /\ w \in Exited
               => /\ pc'[w] = "exited"
                  /\ Len(toMaster'[w]) <= Len(toMaster[w])
                  /\ k'[w] = k[w]]_vars

C18_Witness ==
    /\ 1 \in Exited
    /\ tag[1] \notin {READY, DONE, EXIT, START}
    /\ toMaster[1] = <<>>
    /\ closed_workers >= 1
    /\ k[1] = 1

\* worker w accounts for task p: a START carrying p is in flight to w, w is
\* executing p, or the DONE of w for p is in flight to the master
Accounts(w, p) ==
    \/ \E i \in 1..Len(toWorker[w]) :
          toWorker[w][i].tag = START /\ toWorker[w][i].data.priority = p
    \/ pc[w] \in {"tessphot", "hung"} /\ result[w].priority = p
    \/ \E i \in 1..Len(toMaster[w]) :
          toMaster[w][i].tag = DONE /\ toMaster[w][i].data.priority = p

RunningTasks == {p \in Tasks : status[p] = "RUNNING"}

\* C19: every RUNNING task is accounted for by exactly one worker which has
\* not exited, so that there are never more RUNNING tasks than workers which
\* have not exited.
C19_RunningAccounted ==
    /\ \A p \in RunningTasks :
          Cardinality({w \in Workers \ Exited : Accounts(w, p)}) = 1
    /\ Cardinality(RunningTasks) <= Cardinality(Workers \ Exited)

\* C20: when the master has left its loop because closed_workers reached
\* num_workers, no message is in flight in either direction, and every DONE
\* which a worker sent was received and given to save_result: the tasks with
\* a saved result are as many as the DONE messages sent.
C20_DrainedNothingInFlight ==
    Drained
    => /\ closed_workers = num_workers
       /\ \A w \in Workers : toMaster[w] = <<>> /\ toWorker[w] = <<>>
       /\ KTotal = Cardinality(SettledTasks)
       /\ \A p \in SettledTasks : Truthy(stored[p])

C20_Witness ==
    /\ Drained
    /\ num_workers = 2
    /\ k[1] >= 1
    /\ k[2] >= 1
    /\ KTotal = Cardinality(SettledTasks)

\* C21: every DONE which a worker w has sent, and every DONE which the master
\* handles, names a task that is RUNNING and that is the task of the last
\* START sent to w; so save_result always completes the task, and is never
\* called for a task which is not RUNNING.
C21_DoneNamesRunningTask ==
    /\ [](\A w \in Workers : \A i \in 1..Len(toMaster[w]) :
             toMaster[w][i].tag = DONE
             => /\ Completable(status, toMaster[w][i].data)
                /\ toMaster[w][i].data.priority = lastStart[w])
    /\ [][\A w \in 1..MaxWorkers :
            Handles(w, DONE)
            => LET p == Head(toMaster[w]).data.priority
               IN  /\ p = lastStart[w]
                   /\ status[p] = "RUNNING"
                   /\ status'[p] \in Settled
                   /\ Truthy(stored'[p])]_vars

C21_Witness ==
    /\ 2 \in Tasks
    /\ status[1] = "DONE"
    /\ lastStart[1] = 2
    /\ toMaster[1] # <<>>
    /\ Head(toMaster[1]).tag = DONE
    /\ Head(toMaster[1]).data.priority = 2
    /\ status[2] = "RUNNING"

\* the workers whose final EXIT the master has received
ExitReceived == {w \in Exited : ExitsInFlight(w) = 0}

\* C22: every worker sends EXIT once, as its last message, and sends nothing
\* after it; closed_workers grows by one at a time, never exceeds
\* num_workers, and equals the number of workers whose EXIT has been received;
\* in the end every worker has exited and every EXIT is counted.
C22_ExitOncePerWorker ==
    /\ [](/\ closed_workers <= num_workers
          /\ closed_workers = Cardinality(ExitReceived)
          /\ \A w \in Workers :
                /\ ExitsInFlight(w) <= 1
                /\ ExitsInFlight(w) = 1
                   => w \in Exited /\ Last(toMaster[w]).tag = EXIT)
    /\ [][/\ closed_workers' \in {closed_workers, closed_workers + 1}
          /\ \A w \in Exited :
                /\ pc'[w] = "exited"
                /\ Len(toMaster'[w]) <= Len(toMaster[w])]_vars
    /\ <>[](Exited = Workers /\ closed_workers = num_workers)

C22_Witness ==
    /\ num_workers = 2
    /\ Exited = {1, 2}
    /\ ExitReceived = {1}
    /\ closed_workers = 1
    /\ mpc = "loop"
    /\ k[1] >= 1

\* the master has sent an EXIT to some worker: it is in flight or was received
ExitSent ==
    \E w \in Workers :
        \/ tag[w] = EXIT
        \/ \E i \in 1..Len(toWorker[w]) : toWorker[w][i].tag = EXIT

\* the master sends, in this step, a message with tag t to worker w
Sends(w, t) ==
    /\ w \in Workers
    /\ Len(toWorker'[w]) > Len(toWorker[w])
    /\ Last(toWorker'[w]).tag = t

\* C23: the master sends EXIT to a worker only when no task is PENDING; once
\* get_task has returned none it returns none from then on, so that after
\* the first EXIT of the master no task is claimed and no START is sent.
C23_ExhaustionStable ==
    [][/\ \A w \in 1..MaxWorkers :
             /\ Sends(w, EXIT) => Pending(status) = {} /\ get_task(status) = None
             /\ Sends(w, START) => ~ExitSent
       /\ ExitSent
          => /\ Pending(status') = {}
             /\ get_task(status') = None
             /\ claimLog' = claimLog
             /\ startsSent' = startsSent]_vars

C23_Witness ==
    /\ num_workers = 2
    /\ tag[1] = EXIT
    /\ k[1] >= 1
    /\ k[2] >= 1
    /\ pc[2] = "recv"
    /\ toMaster[2] = <<Msg(READY, None)>>
    /\ toWorker[2] = <<>>

\* C24: make_todo gives the rows it writes the priorities 1, 2, ... in the
\* order of insertion, each once, in non-decreasing order of tmag, and with
\* the status unset; the unique index on priority exists only after every
\* target of the catalogue is inserted, and the finished table holds each
\* target once, with the priorities 1..M.
C24_TodoPriorities ==
    /\ \A i \in 1..Len(todolist) :
          /\ todolist[i].priority = i
          /\ todolist[i].status = Null
    /\ SortedByTmag(todolist)
    /\ priority_idx => Len(todolist) = Len(cat) /\ tdpc = "done"
    /\ tdpc # "failed"
    /\ tdpc = "done"
       => /\ priority_idx
          /\ {todolist[i].priority : i \in 1..Len(todolist)} = 1..Len(cat)
          /\ \A i \in 1..Len(cat) :
                /\ todolist[i].starid = cat[i].starid
                /\ todolist[i].tmag = cat[i].tmag
          /\ {cat[i].starid : i \in 1..Len(cat)} = 1..Len(cat)

C24_Witness ==
    /\ tdpc = "done"
    /\ priority_idx
    /\ Len(todolist) = 3
    /\ todolist[1].tmag = todolist[2].tmag
    /\ todolist[2].tmag < todolist[3].tmag
    /\ todolist[1].starid = 3
    /\ todolist[3].starid = 1

\* the invocations of --all which obtained a task, and the task of each
AllClaimers == {c \in Callers : rmode[c] = "all" /\ Obtained(c)}

ClaimedBy(c) == CHOOSE p \in Tasks : StarId(p) = rtask[c].starid

Ended(c) == rpc[c] \in {"printed", "failed"}

====
